---- MODULE Spec2Model ----
(***************************************************************************)
(* A model of the freedesktop-icons lookup engine (src/src/lib.rs,         *)
(* src/src/theme/*.rs, src/src/cache.rs).                                  *)
(*                                                                         *)
(* Paths are sequences of path components.  A file is a record             *)
(* [dir, stem, ext]: the directory it lies in, and its name split at the   *)
(* extension.  Option<T> is a sequence of length 0 (None) or 1 (Some).     *)
(***************************************************************************)
EXTENDS Integers, Sequences, FiniteSets, TLC

VARIABLES
    fs,         \* the set of files that exist (the directories are fixed)
    BASE_PATHS, \* theme::paths::BASE_PATHS, a Lazy<Vec<PathBuf>>
    THEMES,     \* theme::THEMES, a Lazy<BTreeMap<String, Vec<Theme>>>
    CACHE,      \* cache::CACHE, a ThemeMap behind a Mutex
    last,       \* the last find() call: request, cache probe, stages, result
    finds,      \* the number of find() calls made so far
    call        \* a call of a pure function: its input, and its output once made

vars == <<fs, BASE_PATHS, THEMES, CACHE, last, finds, call>>

-----------------------------------------------------------------------------
(* Bounds *)

\* find() calls per behaviour
MaxFinds == 2

-----------------------------------------------------------------------------
(* Option and sequence helpers *)

None == <<>>

Some(v) == <<v>>

\* Iterator::find_map over the already mapped options: the first Some
FirstSome(opts) ==
    CHOOSE first \in
        {IF \E i \in 1..Len(o) : o[i] # None
         THEN o[CHOOSE i \in 1..Len(o) : o[i] # None /\ \A j \in 1..(i - 1) : o[j] = None]
         ELSE None : o \in {opts}} : TRUE

\* Option::or_else: next is evaluated only when opt is None
or_else(opt, next) ==
    CHOOSE r \in {IF o # None THEN o ELSE next : o \in {opt}} : TRUE

Front(s) == SubSeq(s, 1, Len(s) - 1)

Last(s) == s[Len(s)]

RECURSIVE Flatten(_)
Flatten(ss) == IF ss = <<>> THEN <<>> ELSE Head(ss) \o Flatten(Tail(ss))

\* Vec::dedup: removes consecutive repeated elements
RECURSIVE dedup(_)
dedup(s) ==
    IF Len(s) <= 1 THEN s
    ELSE IF s[1] = s[2] THEN dedup(Tail(s))
         ELSE <<s[1]>> \o dedup(Tail(s))

-----------------------------------------------------------------------------
(* 16-bit signed arithmetic (wrapping, as in a release build) *)

I16_MAX == 32767

I16(n) == ((n + 32768) % 65536) - 32768

Abs16(n) == IF n < 0 THEN I16(0 - n) ELSE n

-----------------------------------------------------------------------------
(* The fixed part of the file system: directories and index.theme texts *)

UsrShareIcons == <<"usr", "share", "icons">>
UsrSharePixmaps == <<"usr", "share", "pixmaps">>
HomeIcons == <<"home", ".icons">>
Cwd == <<>>

\* the environment: BaseDirectories::get_data_dirs ($XDG_DATA_DIRS),
\* get_data_home ($XDG_DATA_HOME) and home_dir ($HOME)
DataDirs == << <<"usr", "share">> >>
DataHome == <<"home", ".local", "share">>
Home == <<"home">>

\* the base paths that exist (Path::exists)
ExistingBasePaths == {UsrShareIcons, UsrSharePixmaps, HomeIcons}

\* icon_theme_base_paths: the data dirs' icons and pixmaps, then the data
\* home's, then $HOME/.icons, the ones that exist
icon_theme_base_paths ==
    LET data_dirs ==
            Flatten([i \in 1..Len(DataDirs) |->
                        <<DataDirs[i] \o <<"icons">>, DataDirs[i] \o <<"pixmaps">>>>])
            \o <<DataHome \o <<"icons">>, DataHome \o <<"pixmaps">>>>
    IN  SelectSeq(data_dirs \o <<Home \o <<".icons">>>>,
                  LAMBDA p : p \in ExistingBasePaths)

\* read_dir of a base path: the names of its sub-directories
SubDirs(base) ==
    IF base = UsrShareIcons THEN <<"A", "B", "C", "P", "Q", "hicolor">>
    ELSE IF base = HomeIcons THEN <<"A">>
    ELSE <<>>

\* the text of a comma list: the names with a comma between two of them
RECURSIVE join_comma(_)
join_comma(names) ==
    IF names = <<>> THEN <<>>
    ELSE IF Len(names) = 1 THEN names
    ELSE <<Head(names), ",">> \o join_comma(Tail(names))

\* values of an index.theme property: a number, a word, or a text given by
\* its tokens (names, commas, blanks); a comma list is such a text
Num(n) == [s |-> "", n |-> Some(n), l |-> <<>>]
Str(s) == [s |-> s, n |-> None, l |-> <<>>]
Text(tokens) == [s |-> "", n |-> None, l |-> tokens]
List(l) == Text(join_comma(l))

\* the items ini_core::Parser yields
Section(name) == [kind |-> "Section", key |-> name, value |-> Str("")]
Property(key, value) == [kind |-> "Property", key |-> key, value |-> value]
SectionEnd == [kind |-> "SectionEnd", key |-> "", value |-> Str("")]

IconThemeSection(inherits, dirs) ==
    <<Section("Icon Theme")>>
    \o (IF inherits = <<>> THEN <<>> ELSE <<Property("Inherits", List(inherits))>>)
    \o <<Property("Directories", List(dirs)), SectionEnd>>

\* what ini_core::Parser yields for the text of the index.theme of a theme
\* directory; the text of a file is named by the directory of the file
IndexItems(dir) ==
    IF dir = UsrShareIcons \o <<"A">> THEN
        IconThemeSection(<<"B">>, <<"D24", "D48">>)
        \o <<Section("D24"), Property("Size", Num(24)), Property("Type", Str("Fixed")), SectionEnd,
             Section("D48"), Property("Size", Num(48)), Property("Type", Str("Fixed")), SectionEnd>>
    ELSE IF dir = HomeIcons \o <<"A">> THEN
        IconThemeSection(<<"C", "B">>, <<"D48", "D24">>)
        \o <<Section("D48"), Property("Size", Num(48)), Property("Type", Str("Scalable")),
             Property("MinSize", Num(32)), Property("MaxSize", Num(64)), SectionEnd,
             Section("D24"), Property("Size", Num(24)), SectionEnd>>
    ELSE IF dir = UsrShareIcons \o <<"B">> THEN
        IconThemeSection(<<"C">>, <<"D24">>)
        \o <<Section("D24"), Property("Size", Num(24)), Property("Type", Str("Fixed")), SectionEnd>>
    ELSE IF dir = UsrShareIcons \o <<"C">> THEN
        IconThemeSection(<<>>, <<"D24">>)
        \o <<Section("D24"), Property("Size", Num(24)), SectionEnd>>
    ELSE IF dir = UsrShareIcons \o <<"hicolor">> THEN
        IconThemeSection(<<>>, <<"D48">>)
        \o <<Section("D48"), Property("Size", Num(48)), Property("Type", Str("Threshold")), SectionEnd>>
    ELSE IF dir = UsrShareIcons \o <<"P">> THEN
        IconThemeSection(<<"Q", "P">>, <<"D24">>)
        \o <<Section("D24"), Property("Size", Num(24)), Property("Type", Str("Fixed")), SectionEnd>>
    ELSE IF dir = UsrShareIcons \o <<"Q">> THEN
        IconThemeSection(<<"P">>, <<"D24">>)
        \o <<Section("D24"), Property("Size", Num(24)), Property("Type", Str("Fixed")), SectionEnd>>
    ELSE <<>>

ThemeDirs ==
    {UsrShareIcons \o <<"A">>, HomeIcons \o <<"A">>, UsrShareIcons \o <<"B">>,
     UsrShareIcons \o <<"C">>, UsrShareIcons \o <<"hicolor">>}

\* two more theme directories, whose Inherits form a cycle: P inherits Q and
\* itself, Q inherits P
CyclicThemeDirs == {UsrShareIcons \o <<"P">>, UsrShareIcons \o <<"Q">>}

IndexFile(dir) == [dir |-> dir, stem |-> "index", ext |-> "theme"]

\* the empty string, and the texts a read of an index can give
EmptyText == <<>>

Texts == ThemeDirs \cup CyclicThemeDirs \cup {EmptyText}

\* the directories an icon file may lie in
IconDirs ==
    {UsrShareIcons \o <<"A", "D24">>, UsrShareIcons \o <<"A", "D48">>,
     HomeIcons \o <<"A", "D24">>,
     UsrShareIcons \o <<"B", "D24">>, UsrShareIcons \o <<"C", "D24">>,
     UsrShareIcons \o <<"hicolor", "D48">>, UsrSharePixmaps, Cwd}

Exts == {"png", "svg", "xmp"}

IconNames == {<<"x">>}

\* the theme names, sizes and scales the callers ask for ("Z" is not installed)
ThemeNames == {"A", "hicolor", "Z"}

Sizes == {24}

Scales == {1}

\* the requests at the edge of the u16 range of with_size and with_scale
EdgeSizes == {0, 24}

EdgeScales == {0, 1}

\* the index.theme files of the cyclic themes that may be missing
MissingCyclicIndexes == {{}} \cup {{d} : d \in CyclicThemeDirs}

\* the directories an icon may lie in when a cyclic theme is looked up
CyclicIconDirs ==
    {UsrShareIcons \o <<"P", "D24">>, UsrShareIcons \o <<"Q", "D24">>,
     UsrShareIcons \o <<"hicolor", "D48">>, UsrSharePixmaps}

\* the file systems with the cyclic themes: the icon lies, as a png, in any
\* of the directories
CyclicFileSystems ==
    {   {IndexFile(d) : d \in (ThemeDirs \cup CyclicThemeDirs) \ missing}
        \cup {[dir |-> d \o Front(n), stem |-> Last(n), ext |-> "png"] :
                 d \in dirs, n \in IconNames}
      : missing \in MissingCyclicIndexes, dirs \in SUBSET CyclicIconDirs }

\* the index.theme files that may be missing, one at a time
MissingIndexes ==
    {{}} \cup {{UsrShareIcons \o <<t>>} : t \in {"A", "B", "hicolor"}}

\* the file systems: every index.theme but at most one exists, and the icon
\* lies in at most two directories, there with the same set of extensions
FileSystems ==
    {   {IndexFile(d) : d \in ThemeDirs \ missing}
        \cup {[dir |-> d \o Front(n), stem |-> Last(n), ext |-> e] :
                 d \in {d1, d2}, n \in IconNames, e \in exts}
      : missing \in MissingIndexes,
        d1 \in IconDirs, d2 \in IconDirs,
        exts \in SUBSET Exts }

-----------------------------------------------------------------------------
(* Path probes *)

\* Path::exists, for a file
exists(file) == file \in fs

\* Path::is_dir
is_dir(path) == path \in ThemeDirs \cup CyclicThemeDirs

\* path.join(format!("{name}.{ext}"))
join_file(path, name, ext) ==
    [dir |-> path \o Front(name), stem |-> Last(name), ext |-> ext]

try_build_svg(name, path) ==
    IF exists(join_file(path, name, "svg")) THEN Some(join_file(path, name, "svg")) ELSE None

try_build_png(name, path) ==
    IF exists(join_file(path, name, "png")) THEN Some(join_file(path, name, "png")) ELSE None

try_build_xmp(name, path) ==
    IF exists(join_file(path, name, "xmp")) THEN Some(join_file(path, name, "xmp")) ELSE None

\* the probe with force_svg ignored: always png first
try_build_png_first(name, path, force_svg) ==
    or_else(try_build_png(name, path),
            or_else(try_build_svg(name, path), try_build_xmp(name, path)))

try_build_icon_path(name, path, force_svg) ==
    IF force_svg
    THEN or_else(try_build_svg(name, path),
                 or_else(try_build_png(name, path), try_build_xmp(name, path)))
    ELSE or_else(try_build_png(name, path),
                 or_else(try_build_svg(name, path), try_build_xmp(name, path)))

-----------------------------------------------------------------------------
(* theme/parse.rs *)

\* str::parse::<i16>(value).ok()
parse_i16(value) ==
    IF value.n # None /\ value.n[1] >= -32768 /\ value.n[1] <= 32767
    THEN value.n ELSE None

\* DirectoryType::from(&str)
DirectoryType_from(value) ==
    IF value = "Fixed" THEN "Fixed"
    ELSE IF value = "Scalable" THEN "Scalable"
    ELSE "Threshold"

\* the locals of the closure of get_all_directories at the start of a call
FreshLocals ==
    [name |-> "", size |-> None, max_size |-> None, min_size |-> None,
     threshold |-> None, scale |-> None, dtype |-> "Threshold"]

Directory(loc) ==
    [name |-> loc.name,
     size |-> loc.size[1],
     scale |-> IF loc.scale = None THEN 1 ELSE loc.scale[1],
     type_ |-> loc.dtype,
     maxsize |-> IF loc.max_size = None THEN loc.size[1] ELSE loc.max_size[1],
     minsize |-> IF loc.min_size = None THEN loc.size[1] ELSE loc.min_size[1],
     threshold |-> IF loc.threshold = None THEN 2 ELSE loc.threshold[1]]

set_property(loc, key, value) ==
    IF key = "Size" THEN [loc EXCEPT !.size = parse_i16(value)]
    ELSE IF key = "Scale" THEN [loc EXCEPT !.scale = parse_i16(value)]
    ELSE IF key = "Type" THEN [loc EXCEPT !.dtype = DirectoryType_from(value.s)]
    ELSE IF key = "MaxSize" THEN [loc EXCEPT !.max_size = parse_i16(value)]
    ELSE IF key = "MinSize" THEN [loc EXCEPT !.min_size = parse_i16(value)]
    ELSE IF key = "Threshold" THEN [loc EXCEPT !.threshold = parse_i16(value)]
    ELSE loc

\* one event of the loop of get_all_directories: the closure's locals and the
\* directories yielded after it, and whether the iterator has ended (the ? on
\* a missing size)
on_event(event, st) ==
    LET loc == st.loc
        skip == loc.name = "" \/ loc.name = "Icon Theme"
    IN  IF event.kind = "Property" THEN
            IF skip THEN st
            ELSE [st EXCEPT !.loc = set_property(loc, event.key, event.value)]
        ELSE IF event.kind = "Section" THEN
            [st EXCEPT !.loc = [FreshLocals EXCEPT !.name = event.key]]
        ELSE IF skip THEN st
        ELSE IF loc.size = None THEN [st EXCEPT !.ended = TRUE]
        ELSE [st EXCEPT !.loc = FreshLocals, !.yielded = Append(st.yielded, Directory(loc))]

\* the directories the iterator of get_all_directories yields before it ends:
\* items is what is left of sections(file), st.loc the closure's locals
RECURSIVE directories_from(_, _)
directories_from(items, st) ==
    IF items = <<>> \/ st.ended THEN st.yielded
    ELSE CHOOSE dirs \in {directories_from(rest, next) :
                             rest \in {Tail(items)}, next \in {on_event(Head(items), st)}} : TRUE

\* parse.rs sections(): the sections, properties and section ends of a text
sections(file) == IF file = EmptyText THEN <<>> ELSE IndexItems(file)

\* Theme::get_all_directories on the items of a text: all the iterator yields
Theme_get_all_directories(items) ==
    directories_from(items, [loc |-> FreshLocals, yielded |-> <<>>, ended |-> FALSE])

\* Theme::get_all_directories, a function of the text
get_all_directories ==
    [file \in Texts |-> Theme_get_all_directories(sections(file))]

\* icon_theme_section: the properties from [Icon Theme] to the next section
RECURSIVE skip_to_icon_theme(_)
skip_to_icon_theme(items) ==
    IF items = <<>> THEN <<>>
    ELSE IF Head(items) = Section("Icon Theme") THEN items
    ELSE skip_to_icon_theme(Tail(items))

RECURSIVE take_icon_theme(_)
take_icon_theme(items) ==
    IF items = <<>> THEN <<>>
    ELSE IF Head(items).kind = "Section" /\ Head(items).key # "Icon Theme" THEN <<>>
    ELSE <<Head(items)>> \o take_icon_theme(Tail(items))

icon_theme_section(items) ==
    SelectSeq(take_icon_theme(skip_to_icon_theme(items)),
              LAMBDA item : item.kind = "Property")

\* str::split(','): the pieces of a text between its commas; piece is the
\* part of the current piece already read
RECURSIVE split_comma(_, _)
split_comma(tokens, piece) ==
    IF tokens = <<>> THEN <<piece>>
    ELSE IF Head(tokens) = "," THEN <<piece>> \o split_comma(Tail(tokens), "")
    ELSE split_comma(Tail(tokens), piece \o Head(tokens))

\* the body of Theme::inherits without its filter
inherits_unfiltered(items) ==
    LET found == SelectSeq(icon_theme_section(items), LAMBDA item : item.key = "Inherits")
    IN  IF found = <<>> THEN <<>>
        ELSE split_comma(found[1].value.l, "")

\* Theme::inherits on the items of a text
Theme_inherits(items) ==
    LET found == SelectSeq(icon_theme_section(items), LAMBDA item : item.key = "Inherits")
    IN  IF found = <<>> THEN <<>>
        ELSE SelectSeq(split_comma(found[1].value.l, ""),
                       LAMBDA parent : parent # "hicolor")

\* Theme::inherits, a function of the text
inherits ==
    [file \in Texts |-> Theme_inherits(sections(file))]

-----------------------------------------------------------------------------
(* theme/directories.rs *)

\* Directory::match_size
match_size(directory, size, scale) ==
    LET scale16 == I16(scale)
        size16 == I16(size)
    IN  IF directory.scale # scale16 THEN FALSE
        ELSE IF directory.type_ = "Fixed" THEN directory.size = size16
        ELSE IF directory.type_ = "Scalable"
             THEN directory.minsize <= size16 /\ size16 <= directory.maxsize
        ELSE I16(directory.size - directory.threshold) <= size16
             /\ size16 <= I16(directory.size + directory.threshold)

\* an integer is a value of i16
in_i16(n) == n >= 0 - I16_MAX - 1 /\ n <= I16_MAX

\* Directory::match_size meets an arithmetic overflow: the difference, or the
\* sum once the left comparison has held, of a Threshold directory leaves i16
match_size_overflows(directory, size, scale) ==
    /\ directory.scale = I16(scale)
    /\ directory.type_ = "Threshold"
    /\ \/ ~in_i16(directory.size - directory.threshold)
       \/ /\ directory.size - directory.threshold <= I16(size)
          /\ ~in_i16(directory.size + directory.threshold)

\* Directory::directory_size_distance
directory_size_distance(directory, size, scale) ==
    LET scaled_size == I16(directory.size * directory.scale)
        min_scaled_size == I16(directory.minsize * directory.scale)
        max_scaled_size == I16(directory.maxsize * directory.scale)
        scale16 == I16(scale)
        size16 == I16(size)
        scaled_requested_size == I16(size16 * scale16)
    IN  IF directory.type_ = "Fixed" THEN I16(scaled_size - scaled_requested_size)
        ELSE IF directory.type_ = "Scalable" THEN
            IF scaled_requested_size < min_scaled_size
            THEN I16(min_scaled_size - scaled_requested_size)
            ELSE IF scaled_requested_size < max_scaled_size
            THEN I16(scaled_requested_size - max_scaled_size)
            ELSE 0
        ELSE
            IF scaled_requested_size < I16(I16(directory.size - directory.threshold) * scale16)
            THEN I16(min_scaled_size - scaled_requested_size)
            ELSE IF scaled_requested_size > I16(I16(directory.size + directory.threshold) * scale16)
            THEN I16(scaled_requested_size - max_scaled_size)
            ELSE 0

\* Directory::directory_size_distance meets an arithmetic overflow: one of
\* its products, or the difference of the branch it takes, leaves i16
directory_size_distance_overflows(directory, size, scale) ==
    LET scaled_size == directory.size * directory.scale
        min_scaled_size == directory.minsize * directory.scale
        max_scaled_size == directory.maxsize * directory.scale
        scale16 == I16(scale)
        size16 == I16(size)
        scaled_requested_size == size16 * scale16
        low == directory.size - directory.threshold
        high == directory.size + directory.threshold
    IN  \/ ~in_i16(scaled_size) \/ ~in_i16(min_scaled_size) \/ ~in_i16(max_scaled_size)
        \/ ~in_i16(scaled_requested_size)
        \/ /\ directory.type_ = "Fixed"
           /\ ~in_i16(scaled_size - scaled_requested_size)
        \/ /\ directory.type_ = "Scalable"
           /\ IF scaled_requested_size < min_scaled_size
              THEN ~in_i16(min_scaled_size - scaled_requested_size)
              ELSE /\ scaled_requested_size < max_scaled_size
                   /\ ~in_i16(scaled_requested_size - max_scaled_size)
        \/ /\ directory.type_ = "Threshold"
           /\ \/ ~in_i16(low) \/ ~in_i16(low * scale16)
              \/ IF scaled_requested_size < low * scale16
                 THEN ~in_i16(min_scaled_size - scaled_requested_size)
                 ELSE \/ ~in_i16(high) \/ ~in_i16(high * scale16)
                      \/ /\ scaled_requested_size > high * scale16
                         /\ ~in_i16(scaled_requested_size - max_scaled_size)

-----------------------------------------------------------------------------
(* theme/mod.rs *)

\* read_ini_theme: the index text, empty when the file cannot be read
read_ini_theme(index) == IF exists(index) THEN index.dir ELSE EmptyText

\* the filter of Theme::match_size, tabulated by text and request
matching_directories ==
    [file \in Texts, size \in Sizes \cup EdgeSizes, scale \in Scales \cup EdgeScales |->
        SelectSeq(get_all_directories[file], LAMBDA d : match_size(d, size, scale))]

\* Theme::match_size: the paths of the directories that match exactly
Theme_match_size(theme, file, size, scale) ==
    LET dirs == matching_directories[file, size, scale]
    IN  [i \in 1..Len(dirs) |-> theme.path \o <<dirs[i].name>>]

\* Theme::try_get_icon_exact_size
try_get_icon_exact_size(theme, file, name, size, scale, force_svg) ==
    LET paths == Theme_match_size(theme, file, size, scale)
    IN  FirstSome([i \in 1..Len(paths) |-> try_build_icon_path(name, paths[i], force_svg)])

\* dirs.sort_by(|(_, a), (_, b)| a.cmp(b)) on the absolute distances: dirs in
\* ascending distance, directories at the same distance in their order in dirs
sort_by_distance(dirs, size, scale) ==
    CHOOSE sorted \in
        {[k \in 1..Len(ds) |->
            ds[CHOOSE i \in 1..Len(ds) :
                  k = 1 + Cardinality({j \in 1..Len(ds) :
                                          \/ ds[j].dist < ds[i].dist
                                          \/ ds[j].dist = ds[i].dist /\ j < i})].dir]
         : ds \in {[i \in 1..Len(dirs) |->
                      [dir |-> dirs[i],
                       dist |-> Abs16(directory_size_distance(dirs[i], size, scale))]]}}
        : TRUE

\* the filter of Theme::closest_match_size without its sort: the candidates
\* in the order of the index
unsorted_candidates(directories, size, scale) ==
    SelectSeq(directories, LAMBDA d : directory_size_distance(d, size, scale) < I16_MAX)

\* the filter and the stable sort of Theme::closest_match_size: the
\* candidates among the directories in ascending distance
closest_candidates(directories, size, scale) ==
    sort_by_distance(
        SelectSeq(directories,
            LAMBDA d : directory_size_distance(d, size, scale) < I16_MAX),
        size, scale)

\* the candidates tabulated by text and request
closest_directories ==
    [file \in Texts, size \in Sizes \cup EdgeSizes, scale \in Scales \cup EdgeScales |->
        closest_candidates(get_all_directories[file], size, scale)]

\* Theme::closest_match_size
closest_match_size(theme, file, size, scale) ==
    LET dirs == closest_directories[file, size, scale]
    IN  [k \in 1..Len(dirs) |-> theme.path \o <<dirs[k].name>>]

\* Theme::try_get_icon_closest_size
try_get_icon_closest_size(theme, file, name, size, scale, force_svg) ==
    LET paths == closest_match_size(theme, file, size, scale)
    IN  FirstSome([i \in 1..Len(paths) |-> try_build_icon_path(name, paths[i], force_svg)])

\* Theme::closest_match_size on the items of a text
Theme_closest_match_size(theme, items, size, scale) ==
    LET dirs == closest_candidates(Theme_get_all_directories(items), size, scale)
    IN  [k \in 1..Len(dirs) |-> theme.path \o <<dirs[k].name>>]

\* Theme::try_get_icon_closest_size on the items of a text
Theme_try_get_icon_closest_size(theme, items, name, size, scale, force_svg) ==
    LET paths == Theme_closest_match_size(theme, items, size, scale)
    IN  FirstSome([i \in 1..Len(paths) |-> try_build_icon_path(name, paths[i], force_svg)])

\* Theme::try_get_icon
try_get_icon(theme, name, size, scale, force_svg) ==
    LET file == read_ini_theme(theme.index)
    IN  or_else(try_get_icon_exact_size(theme, file, name, size, scale, force_svg),
                try_get_icon_closest_size(theme, file, name, size, scale, force_svg))

\* ThemePath::index
ThemePath_index(path) == IF exists(IndexFile(path)) THEN Some(IndexFile(path)) ELSE None

\* Theme::from_path
from_path(path, index) ==
    LET has_index == exists(IndexFile(path)) \/ index # None
    IN  IF ~has_index \/ ~is_dir(path) THEN None
        ELSE IF index # None THEN Some([path |-> path, index |-> index[1]])
        ELSE IF ThemePath_index(path) # None
        THEN Some([path |-> path, index |-> ThemePath_index(path)[1]])
        ELSE None

\* the directory entries of the base paths, in the order they are visited
dir_entries(base_paths) ==
    Flatten([b \in 1..Len(base_paths) |->
                [e \in 1..Len(SubDirs(base_paths[b])) |->
                    [name |-> SubDirs(base_paths[b])[e],
                     path |-> base_paths[b] \o <<SubDirs(base_paths[b])[e]>>]]])

map_get(map, key) == IF key \in DOMAIN map THEN Some(map[key]) ELSE None

map_put(map, key, value) ==
    [k \in DOMAIN map \cup {key} |-> IF k = key THEN value ELSE map[k]]

\* icon_themes.entry(name).or_default().push(theme)
push_theme(icon_themes, name, theme) ==
    map_put(icon_themes, name,
            IF name \in DOMAIN icon_themes THEN Append(icon_themes[name], theme) ELSE <<theme>>)

\* the body of the first loop of get_all_themes, for one directory entry:
\* st holds icon_themes, found_indices and to_revisit
first_visit(entry, st) ==
    LET fallback_index == map_get(st.found_indices, entry.name)
        theme == from_path(entry.path, fallback_index)
    IN  IF theme # None THEN
            [st EXCEPT
               !.found_indices =
                   IF fallback_index = None
                   THEN map_put(st.found_indices, entry.name, theme[1].index)
                   ELSE st.found_indices,
               !.icon_themes = push_theme(st.icon_themes, entry.name, theme[1])]
        ELSE IF is_dir(entry.path)
        THEN [st EXCEPT !.to_revisit = Append(st.to_revisit, entry)]
        ELSE st

RECURSIVE first_pass(_, _)
first_pass(entries, st) ==
    IF entries = <<>> THEN st
    ELSE CHOOSE end \in {first_pass(rest, next) :
                            rest \in {Tail(entries)}, next \in {first_visit(Head(entries), st)}} : TRUE

\* the body of the second loop of get_all_themes
second_visit(entry, st) ==
    LET fallback_index == map_get(st.found_indices, entry.name)
        theme == from_path(entry.path, fallback_index)
    IN  IF theme # None
        THEN [st EXCEPT !.icon_themes = push_theme(st.icon_themes, entry.name, theme[1])]
        ELSE st

RECURSIVE second_pass(_, _)
second_pass(entries, st) ==
    IF entries = <<>> THEN st
    ELSE CHOOSE end \in {second_pass(rest, next) :
                            rest \in {Tail(entries)}, next \in {second_visit(Head(entries), st)}} : TRUE

get_all_themes(base_paths) ==
    LET st0 == [icon_themes |-> <<>>, found_indices |-> <<>>, to_revisit |-> <<>>]
        st1 == first_pass(dir_entries(base_paths), st0)
    IN  second_pass(st1.to_revisit, st1).icon_themes

-----------------------------------------------------------------------------
(* cache.rs *)

Unknown == [tag |-> "Unknown", path |-> None]

NotFound == [tag |-> "NotFound", path |-> None]

Found(path) == [tag |-> "Found", path |-> Some(path)]

\* Cache::insert
Cache_insert(theme_map, theme, size, scale, icon_name, icon_path) ==
    LET entry == IF icon_path # None THEN Found(icon_path[1]) ELSE NotFound
        key == <<icon_name, size, scale>>
    IN  IF theme \in DOMAIN theme_map
        THEN [theme_map EXCEPT ![theme] = map_put(theme_map[theme], key, entry)]
        ELSE map_put(theme_map, theme, map_put(<<>>, key, entry))

\* Cache::get
Cache_get(theme_map, theme, size, scale, icon_name) ==
    IF theme \in DOMAIN theme_map /\ <<icon_name, size, scale>> \in DOMAIN theme_map[theme]
    THEN theme_map[theme][<<icon_name, size, scale>>]
    ELSE Unknown

-----------------------------------------------------------------------------
(* lib.rs: the lookup builder *)

\* LookupBuilder::new
LookupBuilder_new(name) ==
    [name |-> name, cache |-> FALSE, force_svg |-> FALSE, scale |-> 1, size |-> 24,
     theme |-> "hicolor"]

with_size(self, size) == [self EXCEPT !.size = size]

with_scale(self, scale) == [self EXCEPT !.scale = scale]

with_theme(self, theme) == [self EXCEPT !.theme = theme]

with_cache(self) == [self EXCEPT !.cache = TRUE]

force_svg(self) == [self EXCEPT !.force_svg = TRUE]

\* the builders the callers can make with the setters above
Builders ==
    LET sized == {with_scale(with_size(LookupBuilder_new(n), size), scale) :
                     n \in IconNames, size \in Sizes, scale \in Scales}
        themed == {with_theme(b, t) : b \in sized, t \in ThemeNames}
        cached == themed \cup {with_cache(b) : b \in themed}
    IN  cached \cup {force_svg(b) : b \in cached}

\* the builders for a cyclic theme, sizes and scales of 0 included
EdgeBuilders ==
    LET sized == {with_scale(with_size(LookupBuilder_new(n), size), scale) :
                     n \in IconNames, size \in EdgeSizes, scale \in EdgeScales}
        themed == {with_theme(b, t) : b \in sized, t \in {"P", "Q"}}
    IN  themed \cup {with_cache(b) : b \in themed}

-----------------------------------------------------------------------------
(* lib.rs: LookupBuilder::lookup_in_theme *)

\* LookupBuilder::cache_lookup
cache_lookup(self, theme) == Cache_get(CACHE, theme, self.size, self.scale, self.name)

\* LookupBuilder::store: the cache after the insert
store(self, theme, icon) == Cache_insert(CACHE, theme, self.size, self.scale, self.name, icon)

\* icon_themes.iter().find_map(|theme| theme.try_get_icon(..))
search_theme(self, icon_themes) ==
    FirstSome([i \in 1..Len(icon_themes) |->
                  try_get_icon(icon_themes[i], self.name, self.size, self.scale, self.force_svg)])

\* the parent names collected over the records of the theme, after dedup()
parents_of(icon_themes) ==
    dedup(Flatten([i \in 1..Len(icon_themes) |->
                      inherits[read_ini_theme(icon_themes[i].index)]]))

\* the parent fallback that tries the first declared parent only
search_first_parent(self, icon_themes) ==
    LET parents == parents_of(icon_themes)
    IN  IF parents # <<>> /\ parents[1] \in DOMAIN THEMES
        THEN search_theme(self, THEMES[parents[1]])
        ELSE None

\* what stands for the result of a call that does not return
NoReturn == [dir |-> <<>>, stem |-> "", ext |-> "no return"]

\* the parent fallback applied again to the parents of each parent, with no
\* record of the themes already visited: a chain of parents longer than the
\* registry repeats a theme, and then never ends
RECURSIVE search_ancestors(_, _, _)
search_ancestors(self, parents, depth) ==
    IF parents = <<>> THEN None
    ELSE IF depth > Cardinality(DOMAIN THEMES) THEN Some(NoReturn)
    ELSE or_else(
             IF Head(parents) \in DOMAIN THEMES
             THEN or_else(search_theme(self, THEMES[Head(parents)]),
                          CHOOSE r \in {search_ancestors(self, ps, depth + 1) :
                                           ps \in {parents_of(THEMES[Head(parents)])}} : TRUE)
             ELSE None,
             CHOOSE r \in {search_ancestors(self, ps, depth) : ps \in {Tail(parents)}} : TRUE)

search_parents_recursive(self, icon_themes) ==
    search_ancestors(self, parents_of(icon_themes), 1)

\* the fallback to the parent themes
search_parents(self, icon_themes) ==
    LET parents == parents_of(icon_themes)
    IN  FirstSome([i \in 1..Len(parents) |->
                      IF parents[i] \in DOMAIN THEMES
                      THEN search_theme(self, THEMES[parents[i]])
                      ELSE None])

\* the last theme fallback searching the requested theme again, not hicolor
search_requested_again(self) ==
    IF self.theme \in DOMAIN THEMES THEN search_theme(self, THEMES[self.theme]) ELSE None

\* the fallback to hicolor
search_hicolor(self) ==
    IF "hicolor" \in DOMAIN THEMES THEN search_theme(self, THEMES["hicolor"]) ELSE None

\* the probe of every base path
search_base_paths(self) ==
    FirstSome([i \in 1..Len(BASE_PATHS) |->
                  try_build_icon_path(self.name, BASE_PATHS[i], self.force_svg)])

\* the probe of /usr/share/pixmaps
search_pixmaps(self) == try_build_icon_path(self.name, UsrSharePixmaps, self.force_svg)

\* the probe of the name taken as a path: its file stem under its parent
search_literal(self) ==
    try_build_icon_path(<<Last(self.name)>>, Front(self.name), self.force_svg)

StageNames == <<"theme", "parents", "hicolor", "base_paths", "pixmaps", "literal">>

\* the or_else chain over the records the registry gave: the icon, and the
\* stages that ran to find it
search_stages(self, icon_themes) ==
    LET in_theme == search_theme(self, icon_themes)
        in_parents == search_parents(self, icon_themes)
        in_hicolor == search_hicolor(self)
        in_base_paths == search_base_paths(self)
        in_pixmaps == search_pixmaps(self)
        in_literal == search_literal(self)
    IN  IF in_theme # None THEN [icon |-> in_theme, ran |-> SubSeq(StageNames, 1, 1)]
        ELSE IF in_parents # None THEN [icon |-> in_parents, ran |-> SubSeq(StageNames, 1, 2)]
        ELSE IF in_hicolor # None THEN [icon |-> in_hicolor, ran |-> SubSeq(StageNames, 1, 3)]
        ELSE IF in_base_paths # None THEN [icon |-> in_base_paths, ran |-> SubSeq(StageNames, 1, 4)]
        ELSE IF in_pixmaps # None THEN [icon |-> in_pixmaps, ran |-> SubSeq(StageNames, 1, 5)]
        ELSE [icon |-> in_literal, ran |-> StageNames]

\* THEMES.get(self.theme).or_else(|| THEMES.get("hicolor"))
registry_get(theme) ==
    IF theme \in DOMAIN THEMES THEN Some(THEMES[theme])
    ELSE IF "hicolor" \in DOMAIN THEMES THEN Some(THEMES["hicolor"])
    ELSE None

\* the outcome of lookup_in_theme: what it returns, the cache it leaves, the
\* entry its cache probe saw and the search stages it ran
lookup_in_theme(self) ==
    LET probed == IF self.cache THEN cache_lookup(self, self.theme) ELSE Unknown
        icon_themes == registry_get(self.theme)
    IN  IF self.cache /\ probed.tag = "Found"
        THEN [result |-> probed.path, cache |-> CACHE, probed |-> probed, stages |-> <<>>]
        ELSE IF icon_themes = None
        THEN [result |-> None, cache |-> CACHE, probed |-> probed, stages |-> <<>>]
        ELSE LET found == search_stages(self, icon_themes[1])
             IN  [result |-> found.icon,
                  cache |-> IF self.cache THEN store(self, self.theme, found.icon) ELSE CACHE,
                  probed |-> probed,
                  stages |-> found.ran]

-----------------------------------------------------------------------------
(* The state machine *)

\* no call of a pure function is under way
NoCall == [fn |-> "none"]

Init ==
    /\ fs \in FileSystems
    /\ BASE_PATHS = icon_theme_base_paths
    /\ THEMES = get_all_themes(BASE_PATHS)
    /\ CACHE = <<>>
    /\ last = [req |-> LookupBuilder_new(<<"x">>), probed |-> Unknown,
               stages |-> <<>>, result |-> None]
    /\ finds = 0
    /\ call = NoCall

\* LookupBuilder::find
find(self) ==
    /\ finds < MaxFinds
    /\ \E out \in {lookup_in_theme(self)} :
           /\ CACHE' = out.cache
           /\ last' = [req |-> self, probed |-> out.probed,
                       stages |-> out.stages, result |-> out.result]
    /\ finds' = finds + 1
    /\ UNCHANGED <<fs, BASE_PATHS, THEMES, call>>

Next == \E self \in Builders : find(self)

Spec == Init /\ [][Next]_vars

\* The same library over the file systems with the cyclic themes, called
\* with the edge requests
EdgeInit ==
    /\ fs \in CyclicFileSystems
    /\ BASE_PATHS = icon_theme_base_paths
    /\ THEMES = get_all_themes(BASE_PATHS)
    /\ CACHE = <<>>
    /\ last = [req |-> LookupBuilder_new(<<"x">>), probed |-> Unknown,
               stages |-> <<>>, result |-> None]
    /\ finds = 0
    /\ call = NoCall

EdgeNext == \E self \in EdgeBuilders : find(self)

EdgeSpec == EdgeInit /\ [][EdgeNext]_vars

\* The parser of theme/parse.rs as a pure function of an index.theme text.
\* A text is given by its parts: the Inherits value of [Icon Theme] (if any),
\* its Directories and ScaledDirectories lists, and its directory
\* subsections in file order
MaxSubsections == 3

MaxTokens == 3

SeqsUpTo(S, n) == UNION {[1..k -> S] : k \in 0..n}

\* the directory subsections a text may hold: two well formed, one without a
\* Size, one whose Size is not a number, one with an Inherits of its own
SubsectionShapes ==
    { [name |-> "D24", props |-> <<Property("Size", Num(24)), Property("Type", Str("Fixed"))>>],
      [name |-> "D48", props |-> <<Property("Size", Num(48))>>],
      [name |-> "D32", props |-> <<Property("Type", Str("Scalable"))>>],
      [name |-> "D64", props |-> <<Property("Size", Str("big")), Property("Type", Str("Fixed"))>>] }

InheritingSubsection ==
    [name |-> "D24", props |-> <<Property("Size", Num(24)), Property("Inherits", List(<<"B">>))>>]

\* the tokens of an Inherits value
Tokens == {"B", "hicolor", ",", " "}

DirectoryTexts ==
    { [inherits |-> Some(<<"B">>), directories |-> dirs, scaled |-> scaled, subsections |-> subs] :
        dirs \in {<<"D24", "D48", "D32", "D64">>, <<"D24">>},
        scaled \in {<<>>, <<"D48">>},
        subs \in SeqsUpTo(SubsectionShapes, MaxSubsections) }

InheritsTexts ==
    { [inherits |-> inh, directories |-> <<"D24">>, scaled |-> <<>>, subsections |-> <<sub>>] :
        inh \in {None} \cup {Some(t) : t \in SeqsUpTo(Tokens, MaxTokens)},
        sub \in {InheritingSubsection} \cup {sh \in SubsectionShapes : sh.name = "D24"} }

\* what ini_core::Parser yields for such a text
Parser_new(text) ==
    <<Section("Icon Theme")>>
    \o (IF text.inherits = None THEN <<>>
        ELSE <<Property("Inherits", Text(text.inherits[1]))>>)
    \o <<Property("Directories", List(text.directories))>>
    \o (IF text.scaled = <<>> THEN <<>>
        ELSE <<Property("ScaledDirectories", List(text.scaled))>>)
    \o <<SectionEnd>>
    \o Flatten([i \in 1..Len(text.subsections) |->
                   <<Section(text.subsections[i].name)>>
                   \o text.subsections[i].props \o <<SectionEnd>>])

ParseInit ==
    /\ fs = {}
    /\ BASE_PATHS = <<>>
    /\ THEMES = <<>>
    /\ CACHE = <<>>
    /\ last = [req |-> LookupBuilder_new(<<"x">>), probed |-> Unknown,
               stages |-> <<>>, result |-> None]
    /\ finds = 0
    /\ call \in {[fn |-> "none", text |-> text] : text \in DirectoryTexts \cup InheritsTexts}

\* theme.get_all_directories(&file).collect()
call_get_all_directories ==
    /\ call.fn = "none"
    /\ call' = [fn |-> "get_all_directories", text |-> call.text,
                out |-> Theme_get_all_directories(Parser_new(call.text))]
    /\ UNCHANGED <<fs, BASE_PATHS, THEMES, CACHE, last, finds>>

\* theme.inherits(&file)
call_inherits ==
    /\ call.fn = "none"
    /\ call' = [fn |-> "inherits", text |-> call.text,
                out |-> Theme_inherits(Parser_new(call.text))]
    /\ UNCHANGED <<fs, BASE_PATHS, THEMES, CACHE, last, finds>>

ParseNext == call_get_all_directories \/ call_inherits

ParseSpec == ParseInit /\ [][ParseNext]_vars

\* The size arithmetic of theme/directories.rs as pure functions of a
\* directory entry and a requested size and scale
DirectoryTypes == {"Fixed", "Scalable", "Threshold"}

SizeDirectories ==
    { [name |-> "D", size |-> size, scale |-> scale, type_ |-> type_,
       maxsize |-> maxsize, minsize |-> minsize, threshold |-> threshold] :
        size \in {1, 16, I16_MAX}, scale \in {1, 2}, type_ \in DirectoryTypes,
        maxsize \in {16, 32, I16_MAX}, minsize \in {1, 8}, threshold \in {2, 20} }

\* the requested sizes and scales, both u16
RequestSizes == {0, 1, 8, 14, 16, 18, 33, I16_MAX, I16_MAX + 1, 65535}

RequestScales == {0, 1, 2, 65535}

\* the builds: overflow checks are on in a debug build and off in a release one
Builds == {"debug", "release"}

SizeInit ==
    /\ fs = {}
    /\ BASE_PATHS = <<>>
    /\ THEMES = <<>>
    /\ CACHE = <<>>
    /\ last = [req |-> LookupBuilder_new(<<"x">>), probed |-> Unknown,
               stages |-> <<>>, result |-> None]
    /\ finds = 0
    /\ call \in {[fn |-> "none", directory |-> directory, size |-> size, scale |-> scale] :
                    directory \in SizeDirectories, size \in RequestSizes, scale \in RequestScales}

\* directory.match_size(size, scale): an overflow panics where it is checked
\* and wraps where it is not
call_match_size(build) ==
    /\ call.fn = "none"
    /\ call' = [fn |-> "match_size", directory |-> call.directory,
                size |-> call.size, scale |-> call.scale,
                out |-> IF build = "debug"
                           /\ match_size_overflows(call.directory, call.size, call.scale)
                        THEN [panicked |-> TRUE, value |-> FALSE]
                        ELSE [panicked |-> FALSE,
                              value |-> match_size(call.directory, call.size, call.scale)]]
    /\ UNCHANGED <<fs, BASE_PATHS, THEMES, CACHE, last, finds>>

\* directory.directory_size_distance(size, scale)
call_directory_size_distance(build) ==
    /\ call.fn = "none"
    /\ call' = [fn |-> "directory_size_distance", directory |-> call.directory,
                size |-> call.size, scale |-> call.scale,
                out |-> IF build = "debug"
                           /\ directory_size_distance_overflows(call.directory, call.size, call.scale)
                        THEN [panicked |-> TRUE, value |-> 0]
                        ELSE [panicked |-> FALSE,
                              value |-> directory_size_distance(call.directory, call.size, call.scale)]]
    /\ UNCHANGED <<fs, BASE_PATHS, THEMES, CACHE, last, finds>>

SizeNext ==
    \E build \in Builds :
        call_match_size(build) \/ call_directory_size_distance(build)

SizeSpec == SizeInit /\ [][SizeNext]_vars

\* The closest-size search of theme/mod.rs as a pure function of a theme
\* record, the text of its index, a request and the files that exist
RankTheme ==
    [path |-> UsrShareIcons \o <<"A">>, index |-> IndexFile(UsrShareIcons \o <<"A">>)]

RankShapes ==
    { [name |-> "D16", props |-> <<Property("Size", Num(16)), Property("Type", Str("Fixed"))>>],
      [name |-> "D32", props |-> <<Property("Size", Num(32)), Property("Type", Str("Fixed"))>>],
      [name |-> "D48", props |-> <<Property("Size", Num(48)), Property("Type", Str("Scalable")),
                                   Property("MinSize", Num(40)), Property("MaxSize", Num(64))>>],
      [name |-> "D22", props |-> <<Property("Size", Num(22))>>] }

\* the index texts: up to MaxSubsections of the subsections, each at most once
RankTexts ==
    { [inherits |-> None, directories |-> [i \in 1..Len(subs) |-> subs[i].name],
       scaled |-> <<>>, subsections |-> subs] :
        subs \in {q \in SeqsUpTo(RankShapes, MaxSubsections) :
                     \A i, j \in 1..Len(q) : q[i] = q[j] => i = j} }

RankSizes == {20, 24}

RankScales == {1, 2}

\* the file systems: the icon lies, as a png, in any of the directories
RankFileSystems ==
    { {join_file(RankTheme.path \o <<sh.name>>, n, "png") : sh \in shapes, n \in IconNames} :
        shapes \in SUBSET RankShapes }

RankInit ==
    /\ fs \in RankFileSystems
    /\ BASE_PATHS = <<>>
    /\ THEMES = <<>>
    /\ CACHE = <<>>
    /\ last = [req |-> LookupBuilder_new(<<"x">>), probed |-> Unknown,
               stages |-> <<>>, result |-> None]
    /\ finds = 0
    /\ call \in {[fn |-> "none", text |-> text, size |-> size, scale |-> scale] :
                    text \in RankTexts, size \in RankSizes, scale \in RankScales}

\* theme.closest_match_size(file, size, scale)
call_closest_match_size ==
    /\ call.fn = "none"
    /\ call' = [fn |-> "closest_match_size", text |-> call.text,
                size |-> call.size, scale |-> call.scale,
                out |-> Theme_closest_match_size(RankTheme, Parser_new(call.text),
                                                 call.size, call.scale)]
    /\ UNCHANGED <<fs, BASE_PATHS, THEMES, CACHE, last, finds>>

\* theme.try_get_icon_closest_size(file, name, size, scale, force_svg)
call_try_get_icon_closest_size ==
    /\ call.fn = "none"
    /\ call' = [fn |-> "try_get_icon_closest_size", text |-> call.text,
                size |-> call.size, scale |-> call.scale,
                out |-> Theme_try_get_icon_closest_size(RankTheme, Parser_new(call.text),
                                                        <<"x">>, call.size, call.scale, FALSE)]
    /\ UNCHANGED <<fs, BASE_PATHS, THEMES, CACHE, last, finds>>

RankNext == call_closest_match_size \/ call_try_get_icon_closest_size

RankSpec == RankInit /\ [][RankNext]_vars

-----------------------------------------------------------------------------
(* Vocabulary of the properties *)

Range(s) == {s[i] : i \in DOMAIN s}

\* the icon lies in the directory, under one of the three extensions
icon_in(name, dir) == \E e \in Exts : exists(join_file(dir, name, e))

\* the directories of IconDirs the icon lies in
icon_dirs(name) == {d \in IconDirs : icon_in(name, d)}

\* the directories of a theme: the ones the index of each of its records in
\* the registry declares, under the path of the record
theme_directories(theme) ==
    IF theme \notin DOMAIN THEMES THEN {}
    ELSE UNION {{t.path \o <<d.name>> :
                    d \in Range(get_all_directories[read_ini_theme(t.index)])}
                : t \in Range(THEMES[theme])}

\* the directories of a theme that match the requested size and scale exactly
exact_directories(theme, size, scale) ==
    IF theme \notin DOMAIN THEMES THEN {}
    ELSE UNION {{t.path \o <<d.name>> :
                    d \in {e \in Range(get_all_directories[read_ini_theme(t.index)]) :
                              match_size(e, size, scale)}}
                : t \in Range(THEMES[theme])}

\* the parents the records of a registered theme declare, in declared order
declared_parents(theme) ==
    IF theme \notin DOMAIN THEMES THEN <<>>
    ELSE Flatten([i \in 1..Len(THEMES[theme]) |->
                     inherits[read_ini_theme(THEMES[theme][i].index)]])

\* the result of the last find() is a file of the icon in one of the directories
result_in(dirs) ==
    \E d \in dirs : \E e \in Exts : last.result = Some(join_file(d, last.req.name, e))

\* a path lies under a theme directory
under_theme(path) ==
    \E t \in ThemeDirs : Len(path) >= Len(t) /\ SubSeq(path, 1, Len(t)) = t

\* the first file of the icon in the directory, the extensions taken in order
first_existing(name, dir, order) ==
    IF \E i \in 1..Len(order) : exists(join_file(dir, name, order[i]))
    THEN Some(join_file(dir, name,
                        order[CHOOSE i \in 1..Len(order) :
                                 /\ exists(join_file(dir, name, order[i]))
                                 /\ \A j \in 1..(i - 1) : ~exists(join_file(dir, name, order[j]))]))
    ELSE None

extension_order(force) ==
    IF force THEN <<"svg", "png", "xmp">> ELSE <<"png", "svg", "xmp">>

\* the hit of the earliest stage that has one, each stage taken on its own
earliest_stage_hit(self) ==
    LET own == IF self.theme \in DOMAIN THEMES THEN THEMES[self.theme] ELSE <<>>
    IN  FirstSome(<<search_theme(self, own), search_parents(self, own),
                    search_hicolor(self), search_base_paths(self),
                    search_pixmaps(self), search_literal(self)>>)

-----------------------------------------------------------------------------
(* Properties *)

\* C1: negative caching. A cache-enabled find() whose cache probe meets the
\* NotFound an earlier call recorded for its key returns absence and runs no
\* search stage.
C1_NegativeCaching ==
    (finds > 0 /\ last.req.cache /\ last.probed = NotFound)
        => (last.result = None /\ last.stages = <<>>)

\* C2: cache idempotence. A cache-enabled find() that repeats the request of
\* the cache-enabled call just before it returns the same result and runs no
\* search stage, whether that result was a path or absence.
C2_CacheIdempotence ==
    [][(finds > 0 /\ last.req.cache /\ last'.req = last.req)
          => (last'.result = last.result /\ last'.stages = <<>>)]_vars

\* C3: exact before closest over the whole theme. When a directory of any
\* record of the requested theme matches the request exactly and holds the
\* icon, find() returns a file of an exactly matching directory of the theme.
C3_ExactBeforeClosest ==
    LET exact == exact_directories(last.req.theme, last.req.size, last.req.scale)
    IN  (finds > 0 /\ \E d \in exact : icon_in(last.req.name, d))
            => result_in(exact)

C5_TransitiveInheritance ==
    \A B \in Range(declared_parents(last.req.theme)) \ {"hicolor"} :
        \A C \in Range(declared_parents(B)) \ {"hicolor"} :
            (/\ finds > 0
             /\ icon_dirs(last.req.name) # {}
             /\ icon_dirs(last.req.name) \subseteq theme_directories(C))
                => result_in(theme_directories(C))

\* C6: terminal fallback to hicolor. For a requested theme other than
\* hicolor, in the registry or not, an icon that lies only in directories of
\* the hicolor theme is returned by find() from a directory of hicolor.
C6_HicolorFallback ==
    (/\ finds > 0
     /\ last.req.theme # "hicolor"
     /\ icon_dirs(last.req.name) # {}
     /\ icon_dirs(last.req.name) \subseteq theme_directories("hicolor"))
        => result_in(theme_directories("hicolor"))

\* C6, witness: a find() for a registered theme other than hicolor has gone
\* through the theme and its parents and returned, from the hicolor stage, the
\* icon that lies in a directory of hicolor alone.
C6_Witness ==
    /\ finds > 0
    /\ last.req.theme \in DOMAIN THEMES \ {"hicolor"}
    /\ last.stages = <<"theme", "parents", "hicolor">>
    /\ icon_dirs(last.req.name) # {}
    /\ icon_dirs(last.req.name) \subseteq theme_directories("hicolor")
    /\ result_in(theme_directories("hicolor"))

\* C7: pixmap fallback. For every requested theme and every registry, an icon
\* that lies under no theme directory but directly under the pixmaps base
\* path is returned by find() from there.
C7_PixmapFallback ==
    (/\ finds > 0
     /\ \A d \in icon_dirs(last.req.name) : ~under_theme(d)
     /\ icon_in(last.req.name, UsrSharePixmaps))
        => result_in({UsrSharePixmaps})

C9_CacheStore ==
    (finds > 0 /\ last.req.cache)
        => Cache_get(CACHE, last.req.theme, last.req.size, last.req.scale, last.req.name)
               = IF last.result = None THEN NotFound ELSE Found(last.result[1])

\* C10: stage order with short-circuit. A find() that the cache did not answer
\* returns the hit of the earliest stage that has one, in the order requested
\* theme, declared parents, hicolor, base paths and pixmaps, literal path;
\* absence only when no stage has a hit.
C10_StageOrder ==
    (finds > 0 /\ last.probed.tag # "Found")
        => last.result = earliest_stage_hit(last.req)

\* C11: zero size or scale rejected at the builder. No find() has run a search
\* stage for a request whose size or scale is 0.
C11_ZeroRejected ==
    (finds > 0 /\ last.stages # <<>>)
        => (last.req.size # 0 /\ last.req.scale # 0)

\* C12: termination under cyclic inheritance. In every registry, the ones
\* where P inherits Q and itself and Q inherits P included, every find()
\* returns, the ones that can be called next and the one called last, and
\* what it returns is absence or the path of an existing file.
C12_Termination ==
    /\ \A self \in EdgeBuilders :
           \E out \in {lookup_in_theme(self)} :
               out.result = None \/ \E path \in fs : out.result = Some(path)
    /\ finds > 0 => (last.result = None \/ \E path \in fs : last.result = Some(path))

\* C12, witness: with P and Q registered, P inheriting Q and itself and Q
\* inheriting P, a find() for P has run the parent stage and every later stage
\* and returned absence.
C12_Witness ==
    /\ finds > 0
    /\ last.req.theme = "P"
    /\ declared_parents("P") = <<"Q", "P">>
    /\ declared_parents("Q") = <<"P">>
    /\ last.stages = StageNames
    /\ last.result = None

\* a path lies under another
under(path, root) == Len(path) >= Len(root) /\ SubSeq(path, 1, Len(root)) = root

\* C13: base-path order. When ~/.icons exists it is the first base path, and
\* every base path under the user's home precedes every base path under a
\* system data directory.
C13_BasePathOrder ==
    /\ HomeIcons \in Range(BASE_PATHS) => BASE_PATHS[1] = HomeIcons
    /\ \A i, j \in 1..Len(BASE_PATHS) :
           (/\ under(BASE_PATHS[i], Home)
            /\ \E k \in 1..Len(DataDirs) : under(BASE_PATHS[j], DataDirs[k]))
               => i < j

\* the place in BASE_PATHS of the base path a theme record was found in
base_path_index(theme) ==
    CHOOSE i \in 1..Len(BASE_PATHS) : BASE_PATHS[i] = Front(theme.path)

\* C14: registry ordering. Under every theme name the records are in the
\* order of their base paths in BASE_PATHS, the records admitted in the second
\* pass included.
C14_RegistryOrder ==
    \A name \in DOMAIN THEMES :
        \A i, j \in 1..Len(THEMES[name]) :
            i < j => base_path_index(THEMES[name][i]) < base_path_index(THEMES[name][j])

\* C15: own index first. Every record of the registry whose directory holds an
\* index.theme has that file as its index.
C15_OwnIndexFirst ==
    \A name \in DOMAIN THEMES :
        \A i \in 1..Len(THEMES[name]) :
            exists(IndexFile(THEMES[name][i].path))
                => THEMES[name][i].index = IndexFile(THEMES[name][i].path)

\* a directory subsection is well formed: it has a Size that is a number
well_formed(sub) ==
    \E i \in 1..Len(sub.props) :
        sub.props[i].key = "Size" /\ sub.props[i].value.n # None

\* the names of the entries of a list of directories or of subsections
names_of(entries) == [i \in 1..Len(entries) |-> entries[i].name]

\* C16: local degradation. get_all_directories produces an entry for every
\* well-formed subsection of the text, in file order, whatever subsections
\* without a Size or with a Size that is not a number stand before or after
\* it; those produce no entry.
C16_LocalDegradation ==
    call.fn = "get_all_directories"
        => names_of(call.out) = names_of(SelectSeq(call.text.subsections, well_formed))

\* C17: only declared directories. Every entry get_all_directories produces
\* has a name listed in Directories or ScaledDirectories of [Icon Theme].
C17_OnlyDeclared ==
    call.fn = "get_all_directories"
        => \A i \in 1..Len(call.out) :
               call.out[i].name \in Range(call.text.directories) \cup Range(call.text.scaled)

\* the string a run of tokens spells
RECURSIVE concat(_)
concat(tokens) == IF tokens = <<>> THEN "" ELSE Head(tokens) \o concat(Tail(tokens))

\* where the commas of a text stand, and the k-th of them from the left (the
\* 0-th stands before the text, the one after the last behind it)
commas(t) == {i \in 1..Len(t) : t[i] = ","}

cut(t, k) ==
    IF k = 0 THEN 0
    ELSE IF k = Cardinality(commas(t)) + 1 THEN Len(t) + 1
    ELSE CHOOSE i \in commas(t) : Cardinality({j \in commas(t) : j < i}) = k - 1

\* the names an Inherits value declares: what stands between its commas
declared_names(t) ==
    [k \in 1..(Cardinality(commas(t)) + 1) |->
        concat(SubSeq(t, cut(t, k - 1) + 1, cut(t, k) - 1))]

\* C18: Theme::inherits. The list returned never contains hicolor, and it is
\* the names the Inherits value of [Icon Theme] declares between its commas,
\* in their order, without the ones that are hicolor; it is empty when
\* [Icon Theme] has no Inherits key.
C18_Inherits ==
    call.fn = "inherits"
        => /\ "hicolor" \notin Range(call.out)
           /\ call.out =
                  IF call.text.inherits = None THEN <<>>
                  ELSE SelectSeq(declared_names(call.text.inherits[1]),
                                 LAMBDA name : name # "hicolor")

\* C18, witness: inherits has been called on a text whose [Icon Theme]
\* declares B and hicolor, and has returned B alone.
C18_Witness ==
    /\ call.fn = "inherits"
    /\ call.text.inherits = Some(<<"B", ",", "hicolor">>)
    /\ call.out = <<"B">>

\* C19: parent list deduplication. In every find() that has run the parent
\* stage, the list of parent names the stage searched holds each name once.
C19_ParentsDeduplicated ==
    (finds > 0 /\ "parents" \in Range(last.stages))
        => \E parents \in {parents_of(THEMES[last.req.theme])} :
               \A i, j \in 1..Len(parents) : parents[i] = parents[j] => i = j

\* C20: exact-match predicate. match_size returns, and what it returns is
\* true exactly when the scale of the entry is the requested scale and the
\* requested size is, for Fixed, the nominal size; for Scalable, between the
\* minimal and the maximal size; for Threshold, within threshold of the
\* nominal size.
C20_ExactMatchPredicate ==
    call.fn = "match_size"
        => /\ ~call.out.panicked
           /\ call.out.value =
                  (/\ call.directory.scale = call.scale
                   /\ CASE call.directory.type_ = "Fixed" ->
                               call.size = call.directory.size
                        [] call.directory.type_ = "Scalable" ->
                               /\ call.directory.minsize <= call.size
                               /\ call.size <= call.directory.maxsize
                        [] call.directory.type_ = "Threshold" ->
                               /\ call.directory.size - call.directory.threshold <= call.size
                               /\ call.size <= call.directory.size + call.directory.threshold)

\* C21: Scalable distance. For a Scalable entry directory_size_distance
\* returns 0 when requested size * requested scale lies within
\* [min size * scale, max size * scale], the undershoot below that range and
\* the overshoot above it.
C21_ScalableDistance ==
    (call.fn = "directory_size_distance" /\ call.directory.type_ = "Scalable")
        => /\ ~call.out.panicked
           /\ \E requested \in {call.size * call.scale},
                 min_scaled \in {call.directory.minsize * call.directory.scale},
                 max_scaled \in {call.directory.maxsize * call.directory.scale} :
                  call.out.value =
                      IF requested < min_scaled THEN min_scaled - requested
                      ELSE IF requested > max_scaled THEN requested - max_scaled
                      ELSE 0

\* the distance a directory is ranked by: the magnitude of
\* directory_size_distance
magnitude(n) == IF n < 0 THEN 0 - n ELSE n

rank_distance(directory, size, scale) ==
    magnitude(directory_size_distance(directory, size, scale))

\* C22: closest-size ranking. closest_match_size returns the path of every
\* candidate directory of the record once, a directory at a smaller distance
\* before one at a larger distance, and of two at the same distance the one
\* declared first in the index first; the closest-size search returns the
\* icon from the first directory in that order that holds it, and absence when
\* none does.
C22_ClosestRanking ==
    \E dirs \in {Theme_get_all_directories(Parser_new(call.text))} :
        /\ call.fn = "closest_match_size" =>
               /\ Len(call.out) = Len(dirs)
               /\ \A i \in 1..Len(dirs) :
                      \E k \in 1..Len(call.out) : call.out[k] = RankTheme.path \o <<dirs[i].name>>
               /\ \A k, l \in 1..Len(call.out) : \A i, j \in 1..Len(dirs) :
                      (/\ call.out[k] = RankTheme.path \o <<dirs[i].name>>
                       /\ call.out[l] = RankTheme.path \o <<dirs[j].name>>
                       /\ \/ rank_distance(dirs[i], call.size, call.scale)
                                < rank_distance(dirs[j], call.size, call.scale)
                          \/ /\ rank_distance(dirs[i], call.size, call.scale)
                                   = rank_distance(dirs[j], call.size, call.scale)
                             /\ i < j)
                          => k < l
        /\ call.fn = "try_get_icon_closest_size" =>
               \E order \in {Theme_closest_match_size(RankTheme, Parser_new(call.text),
                                                       call.size, call.scale)} :
                   IF \A k \in 1..Len(order) : ~icon_in(<<"x">>, order[k])
                   THEN call.out = None
                   ELSE \E k \in 1..Len(order) :
                            /\ icon_in(<<"x">>, order[k])
                            /\ \A l \in 1..(k - 1) : ~icon_in(<<"x">>, order[l])
                            /\ call.out = first_existing(<<"x">>, order[k], extension_order(FALSE))

\* C22, witness: the closest-size search has been run for size 24 on an index
\* that declares D48 (distance 16), D32 and D16 (distance 8 both) in this
\* order, the icon lying in all three, and has returned the icon of D32.
C22_Witness ==
    /\ call.fn = "try_get_icon_closest_size"
    /\ call.size = 24 /\ call.scale = 1
    /\ call.text.directories = <<"D48", "D32", "D16">>
    /\ \A d \in {"D48", "D32", "D16"} : icon_in(<<"x">>, RankTheme.path \o <<d>>)
    /\ call.out = Some(join_file(RankTheme.path \o <<"D32">>, <<"x">>, "png"))

\* C23: cache transparency. Every cache-enabled find() returns what the same
\* request (theme, icon name, size, scale, force_svg) returns with the cache
\* disabled, over the same file system and registry.
C23_CacheTransparency ==
    (finds > 0 /\ last.req.cache)
        => \E out \in {lookup_in_theme([last.req EXCEPT !.cache = FALSE])} :
               last.result = out.result

\* what match_size and directory_size_distance come to in the integers: the
\* expressions of directories.rs on the request as given, nothing reduced to
\* 16 bits
exact_match_size(directory, size, scale) ==
    /\ directory.scale = scale
    /\ \/ directory.type_ = "Fixed" /\ directory.size = size
       \/ directory.type_ = "Scalable"
             /\ directory.minsize <= size /\ size <= directory.maxsize
       \/ directory.type_ = "Threshold"
             /\ directory.size - directory.threshold <= size
             /\ size <= directory.size + directory.threshold

exact_size_distance(directory, size, scale) ==
    LET scaled_size == directory.size * directory.scale
        min_scaled_size == directory.minsize * directory.scale
        max_scaled_size == directory.maxsize * directory.scale
        scaled_requested_size == size * scale
    IN  IF directory.type_ = "Fixed" THEN scaled_size - scaled_requested_size
        ELSE IF directory.type_ = "Scalable" THEN
            IF scaled_requested_size < min_scaled_size
            THEN min_scaled_size - scaled_requested_size
            ELSE IF scaled_requested_size < max_scaled_size
            THEN scaled_requested_size - max_scaled_size
            ELSE 0
        ELSE
            IF scaled_requested_size < (directory.size - directory.threshold) * scale
            THEN min_scaled_size - scaled_requested_size
            ELSE IF scaled_requested_size > (directory.size + directory.threshold) * scale
            THEN scaled_requested_size - max_scaled_size
            ELSE 0

\* C24: no wraparound in size arithmetic. For every requested size and scale
\* in 1..65535 and every directory entry, match_size and
\* directory_size_distance return, and return what their expressions come to
\* in the integers.
C24_NoWraparound ==
    (call.fn # "none" /\ call.size >= 1 /\ call.scale >= 1)
        => /\ ~call.out.panicked
           /\ call.fn = "match_size"
                  => call.out.value = exact_match_size(call.directory, call.size, call.scale)
           /\ call.fn = "directory_size_distance"
                  => call.out.value = exact_size_distance(call.directory, call.size, call.scale)

====
